---------------------------- MODULE Spec2Model ----------------------------
(***************************************************************************)
(* Notebook builder: main.py (Variant A, one cell per top-level function   *)
(* or class) and making-file.py (Variant B, one cell per file).            *)
(*                                                                         *)
(* Text is a sequence of symbols.  The four characters the regular         *)
(* expressions of remove_comments_and_docstrings tell apart are symbols of *)
(* their own: "#", "\n", the double quote and the single quote.  Every     *)
(* other symbol ("d", "pass", "def f():", ...) stands for a run of         *)
(* characters none of which is one of those four, so a pattern that only   *)
(* tests for those four characters treats a symbol as it treats the run.   *)
(***************************************************************************)
EXTENDS Integers, Sequences, FiniteSets, TLC

VARIABLES
    pc,                     \* position of the running script
    source_code,            \* argument of remove_comments_and_docstrings
    cleaned,                \* its result
    recleaned,              \* the result of applying it to its own result
    file_stmts,             \* the top-level statements a source file was written with
    file_content,           \* the text of that file
    functions_and_classes,  \* what extract_functions_and_classes_from_file returned
    variant,                \* "A": main.py, "B": making-file.py
    parent,                 \* the directories found so far, each with its parent
    listing,                \* which listing os.walk gave for each directory scanned, 0 before
    answers,                \* what the user typed for each directory, <<>> before
    prompts,                \* how many times each directory was asked about
    pending,                \* the directories os.walk has still to yield, in order
    root,                   \* the directory whose files are being gone through
    files,                  \* its files
    fidx,                   \* the position of `for file in files`
    todo,                   \* the fragments still to become code cells
    nb,                     \* nb['cells']
    code_cell_count,
    processed,              \* the files handed to the extractor, in order
    reported,               \* the totals printed: none, or one after the walk
    written                 \* the documents nbf.write stored: none, or one

normVars == <<source_code, cleaned, recleaned>>
extractVars == <<file_stmts, file_content, functions_and_classes>>
walkVars == <<variant, parent, listing, answers, prompts, pending, root, files,
              fidx, todo, nb, code_cell_count, processed, reported, written>>
vars == <<pc, normVars, extractVars, walkVars>>

---------------------------------------------------------------------------
(* Symbols *)

HASH == "#"
NL == "\n"
DQ == "\""
SQ == "'"
LETTER == "d"
IND == "    "
PASS == "pass"
ASG == "x = "
DEF_F == "def f():"
ASYNC_DEF_F == "async def f():"
CLASS_C == "class C:"
ESC_NL == "\\n"

TripleDQ == <<DQ, DQ, DQ>>
TripleSQ == <<SQ, SQ, SQ>>

None == "None"

---------------------------------------------------------------------------
(* Sequence helpers *)

\* s[i:j] of Python: positions i .. j-1 (1-based here), empty when j <= i
Slice(s, i, j) == IF j <= i THEN <<>> ELSE SubSeq(s, i, j - 1)

\* s.startswith(d, i): d occurs in s at position i
StartsWithAt(s, i, d) ==
    /\ i >= 1
    /\ i + Len(d) - 1 <= Len(s)
    /\ \A k \in 1..Len(d) : s[i + k - 1] = d[k]

RECURSIVE Flatten(_)
Flatten(ss) == IF ss = <<>> THEN <<>> ELSE Head(ss) \o Flatten(Tail(ss))

---------------------------------------------------------------------------
(* re.sub(r'#.*$', '', source_code, flags=re.MULTILINE) *)

\* '.' without DOTALL: any character but the line break
Dot(c) == c # NL

\* end (exclusive) of the longest run '.*' can take from position i
RECURSIVE DotStarEnd(_, _)
DotStarEnd(s, i) ==
    IF i <= Len(s) /\ Dot(s[i]) THEN DotStarEnd(s, i + 1) ELSE i

\* '$' had the MULTILINE flag been left out: at the end, or before a line
\* break that ends the text
EndOfLine_NoMultiline(s, j) == j = Len(s) + 1 \/ (j = Len(s) /\ s[j] = NL)

\* '$' with MULTILINE: at the end, or before any line break
EndOfLine(s, j) == j = Len(s) + 1 \/ (j <= Len(s) /\ s[j] = NL)

\* end (exclusive) of the match of '#.*$' at position i, 0 when there is none:
\* '.*' is greedy and gives back characters until '$' holds
CommentMatchEnd(s, i) ==
    IF s[i] # HASH THEN 0
    ELSE LET ends == {j \in (i + 1)..DotStarEnd(s, i + 1) : EndOfLine(s, j)}
         IN  IF ends = {} THEN 0
             ELSE CHOOSE j \in ends : \A k \in ends : k <= j

\* the scan of re.sub from position i: a match is replaced by '' and the scan
\* goes on after it, any other character is copied
RECURSIVE SubComments(_, _)
SubComments(s, i) ==
    IF i > Len(s) THEN <<>>
    ELSE LET e == CommentMatchEnd(s, i)
         IN  IF e = 0 THEN <<s[i]>> \o SubComments(s, i + 1)
             ELSE SubComments(s, e)

---------------------------------------------------------------------------
(* re.sub(pattern, replacer, source_code, flags=re.DOTALL) *)

\* the four alternatives of pattern, in the order the regex tries them
pattern == <<TripleDQ, TripleSQ, <<DQ>>, <<SQ>>>>

\* end (exclusive) of the match of  d.*?d  at position i, 0 when there is none:
\* '.*?' with DOTALL takes as little as it can, line breaks included
LazyMatchEnd(s, i, d) ==
    IF ~StartsWithAt(s, i, d) THEN 0
    ELSE LET closes == {j \in (i + Len(d))..Len(s) : StartsWithAt(s, j, d)}
         IN  IF closes = {} THEN 0
             ELSE (CHOOSE j \in closes : \A k \in closes : j <= k) + Len(d)

\* end (exclusive) of the match of pattern at position i: the first alternative
\* that matches wins
PatternMatchEnd(s, i) ==
    LET hits == {a \in 1..Len(pattern) : LazyMatchEnd(s, i, pattern[a]) # 0}
    IN  IF hits = {} THEN 0
        ELSE LazyMatchEnd(s, i, pattern[CHOOSE a \in hits : \A b \in hits : a <= b])

\* replacer(match): '' for a match that starts with a triple quote
replacer(m) ==
    IF StartsWithAt(m, 1, TripleDQ) \/ StartsWithAt(m, 1, TripleSQ)
    THEN <<>> ELSE m

RECURSIVE SubStrings(_, _)
SubStrings(s, i) ==
    IF i > Len(s) THEN <<>>
    ELSE LET e == PatternMatchEnd(s, i)
         IN  IF e = 0 THEN <<s[i]>> \o SubStrings(s, i + 1)
             ELSE replacer(Slice(s, i, e)) \o SubStrings(s, e)

remove_comments_and_docstrings(s) == SubStrings(SubComments(s, 1), 1)

---------------------------------------------------------------------------
(* The lexical structure Python gives a text (ast.parse reads it this way): *)
(* comments, triple-quoted strings, one-line strings, everything else       *)

Tok(t, v) == [t |-> t, v |-> v]

\* position of the first occurrence of d in s at or after i, 0 when there is none
FirstAt(s, i, d) ==
    LET at == {j \in i..Len(s) : StartsWithAt(s, j, d)}
    IN  IF at = {} THEN 0 ELSE CHOOSE j \in at : \A k \in at : j <= k

RECURSIVE LexFrom(_, _)
LexFrom(s, i) ==
    IF i > Len(s) THEN <<>>
    ELSE IF s[i] = HASH THEN
        LET e == DotStarEnd(s, i + 1)
        IN  <<Tok("comment", Slice(s, i, e))>> \o LexFrom(s, e)
    ELSE IF StartsWithAt(s, i, TripleDQ) \/ StartsWithAt(s, i, TripleSQ) THEN
        LET d == Slice(s, i, i + 3)
            c == FirstAt(s, i + 3, d)
        IN  IF c = 0 THEN <<Tok("error", Slice(s, i, Len(s) + 1))>>
            ELSE <<Tok("triple", Slice(s, i, c + 3))>> \o LexFrom(s, c + 3)
    ELSE IF s[i] \in {DQ, SQ} THEN
        LET c == FirstAt(s, i + 1, <<s[i]>>)
            n == FirstAt(s, i + 1, <<NL>>)
        IN  IF c = 0 \/ (n # 0 /\ n < c)
            THEN <<Tok("error", Slice(s, i, Len(s) + 1))>>
            ELSE <<Tok("short", Slice(s, i, c + 1))>> \o LexFrom(s, c + 1)
    ELSE <<Tok("sym", <<s[i]>>)>> \o LexFrom(s, i + 1)

Lex(s) == LexFrom(s, 1)

LexOk(toks) == \A k \in 1..Len(toks) : toks[k].t # "error"

Tokens(s, kind) == {Lex(s)[k].v : k \in {j \in 1..Len(Lex(s)) : Lex(s)[j].t = kind}}

IsSubstring(d, s) == \E i \in 1..(Len(s) + 1) : StartsWithAt(s, i, d)

---------------------------------------------------------------------------
(* ast.parse: the syntax tree of a text, or SyntaxError.  The statement forms *)
(* are those of the sample sources: pass, a string expression (adjacent        *)
(* literals are one constant), x = <string>, and def / async def / class       *)
(* headers with an indented block.                                             *)

Node(kind, value, body) == [kind |-> kind, value |-> value, body |-> body]

DeclKinds == {"FunctionDef", "AsyncFunctionDef", "ClassDef"}

HeaderKind(sym) ==
    CASE sym = DEF_F -> "FunctionDef"
      [] sym = ASYNC_DEF_F -> "AsyncFunctionDef"
      [] sym = CLASS_C -> "ClassDef"
      [] OTHER -> "none"

HeaderOf(kind) ==
    CASE kind = "FunctionDef" -> DEF_F
      [] kind = "AsyncFunctionDef" -> ASYNC_DEF_F
      [] OTHER -> CLASS_C

\* the value of a string literal: the text between its quotes, '\n' escapes
\* of a one-line literal read as line breaks
StrValue(tok) ==
    IF tok.t = "triple" THEN Slice(tok.v, 4, Len(tok.v) - 2)
    ELSE [k \in 1..(Len(tok.v) - 2) |->
             IF tok.v[k + 1] = ESC_NL THEN NL ELSE tok.v[k + 1]]

IsStr(tok) == tok.t \in {"triple", "short"}

RECURSIVE StrValues(_)
StrValues(toks) ==
    IF toks = <<>> THEN <<>> ELSE StrValue(Head(toks)) \o StrValues(Tail(toks))

\* the logical lines of a token sequence: comments dropped, split at the line
\* breaks outside strings, each with its indentation and its other tokens
RECURSIVE SplitLines(_, _)
SplitLines(toks, cur) ==
    IF toks = <<>> THEN <<cur>>
    ELSE IF Head(toks).v = <<NL>> /\ Head(toks).t = "sym"
         THEN <<cur>> \o SplitLines(Tail(toks), <<>>)
         ELSE SplitLines(Tail(toks),
                         IF Head(toks).t = "comment" THEN cur
                         ELSE Append(cur, Head(toks)))

IsInd(tok) == tok.t = "sym" /\ tok.v = <<IND>>

RECURSIVE Indent(_)
Indent(line) ==
    IF line # <<>> /\ IsInd(Head(line)) THEN 1 + Indent(Tail(line)) ELSE 0

LogicalLine(line) ==
    [indent |-> Indent(line), toks |-> SelectSeq(line, LAMBDA t : ~IsInd(t))]

\* blank lines (nothing but indentation and comments) do not count
LogicalLines(toks) ==
    LET raw == SplitLines(toks, <<>>)
        all == [k \in 1..Len(raw) |-> LogicalLine(raw[k])]
    IN  SelectSeq(all, LAMBDA l : l.toks # <<>>)

\* what statement a line is: a node for a simple statement, a header kind, or "error"
LineKind(toks) ==
    IF Len(toks) = 1 /\ toks[1].t = "sym" /\ HeaderKind(toks[1].v[1]) # "none"
        THEN HeaderKind(toks[1].v[1])
    ELSE IF Len(toks) = 1 /\ toks[1].t = "sym" /\ toks[1].v = <<PASS>>
        THEN "Pass"
    ELSE IF \A k \in 1..Len(toks) : IsStr(toks[k])
        THEN "Expr"
    ELSE IF /\ Len(toks) >= 2 /\ toks[1].t = "sym" /\ toks[1].v = <<ASG>>
            /\ \A k \in 2..Len(toks) : IsStr(toks[k])
        THEN "Assign"
    ELSE "error"

LineValue(toks) ==
    StrValues(SelectSeq(toks, IsStr))

ParseFail == [ok |-> FALSE, body |-> <<>>, next |-> 0]

\* the statements at indentation ind from line i on, up to the first line
\* indented less
RECURSIVE ParseBlock(_, _, _)
ParseBlock(lines, i, ind) ==
    IF i > Len(lines) \/ lines[i].indent < ind
        THEN [ok |-> TRUE, body |-> <<>>, next |-> i]
    ELSE IF lines[i].indent > ind THEN ParseFail        \* unexpected indent
    ELSE LET kind == LineKind(lines[i].toks)
         IN  IF kind = "error" THEN ParseFail
             ELSE IF kind \in DeclKinds THEN
                 IF i + 1 > Len(lines) \/ lines[i + 1].indent <= ind
                 THEN ParseFail                          \* expected an indented block
                 ELSE LET inner == ParseBlock(lines, i + 1, lines[i + 1].indent)
                          rest == ParseBlock(lines, inner.next, ind)
                      IN  IF ~inner.ok \/ ~rest.ok THEN ParseFail
                          ELSE [ok |-> TRUE,
                                body |-> <<Node(kind, <<>>, inner.body)>> \o rest.body,
                                next |-> rest.next]
             ELSE LET rest == ParseBlock(lines, i + 1, ind)
                  IN  IF ~rest.ok THEN ParseFail
                      ELSE [ok |-> TRUE,
                            body |-> <<Node(kind, LineValue(lines[i].toks), <<>>)>>
                                         \o rest.body,
                            next |-> rest.next]

\* ast.parse(text): [ok |-> FALSE] stands for the SyntaxError it raises
Parse(text) ==
    LET toks == Lex(text)
    IN  IF ~LexOk(toks) THEN [ok |-> FALSE, body |-> <<>>]
        ELSE LET m == ParseBlock(LogicalLines(toks), 1, 0)
             IN  [ok |-> m.ok, body |-> m.body]

---------------------------------------------------------------------------
(* ast.unparse: a node rendered back to source text *)

Spaces(level) == [k \in 1..level |-> IND]

\* repr of a string constant: single quotes, a line break written as \n
Repr(value) ==
    <<SQ>> \o [k \in 1..Len(value) |-> IF value[k] = NL THEN ESC_NL ELSE value[k]]
         \o <<SQ>>

\* a body starts with a docstring when its first statement is a string expression
HasDocstring(body) == body # <<>> /\ body[1].kind = "Expr"

RECURSIVE UnparseStmt(_, _)
RECURSIVE UnparseBody(_, _)

\* one statement at an indentation level, without the line break before it
UnparseStmt(node, level) ==
    CASE node.kind = "Pass" -> Spaces(level) \o <<PASS>>
      [] node.kind = "Expr" -> Spaces(level) \o Repr(node.value)
      [] node.kind = "Assign" -> Spaces(level) \o <<ASG>> \o Repr(node.value)
      [] OTHER ->
            Spaces(level) \o <<HeaderOf(node.kind)>>
            \o (IF HasDocstring(node.body)
                THEN <<NL>> \o Spaces(level + 1)
                     \o TripleDQ \o node.body[1].value \o TripleDQ
                     \o UnparseBody(Tail(node.body), level + 1)
                ELSE UnparseBody(node.body, level + 1))

\* the statements of a block, each on a new line, a blank line before a
\* function or class
UnparseBody(body, level) ==
    IF body = <<>> THEN <<>>
    ELSE (IF Head(body).kind \in DeclKinds THEN <<NL, NL>> ELSE <<NL>>)
         \o UnparseStmt(Head(body), level)
         \o UnparseBody(Tail(body), level)

\* ast.unparse(item) for a statement of the module body
unparse(item) == UnparseStmt(item, 0)

---------------------------------------------------------------------------
(* extract_functions_and_classes_from_file (main.py) *)

SyntaxError == "SyntaxError"

\* the test had ast.AsyncFunctionDef been left out
IsFunctionOrClass_NoAsync(item) == item.kind \in {"FunctionDef", "ClassDef"}

\* isinstance(item, (ast.FunctionDef, ast.AsyncFunctionDef, ast.ClassDef))
IsFunctionOrClass(item) == item.kind \in DeclKinds

\* the loop over node.body
RECURSIVE ExtractLoop(_)
ExtractLoop(body) ==
    IF body = <<>> THEN <<>>
    ELSE (IF IsFunctionOrClass(Head(body))
          THEN <<remove_comments_and_docstrings(unparse(Head(body)))>>
          ELSE <<>>)
         \o ExtractLoop(Tail(body))

\* the extractor had it caught the SyntaxError and returned no fragment
extract_skipping_errors(text) ==
    LET node == Parse(text)
    IN  IF ~node.ok THEN <<>> ELSE ExtractLoop(node.body)

extract_functions_and_classes_from_file(text) ==
    LET node == Parse(text)
    IN  IF ~node.ok THEN SyntaxError ELSE ExtractLoop(node.body)


---------------------------------------------------------------------------
(* Claims about remove_comments_and_docstrings *)

\* the positions of s inside a line comment: at or after a '#' of the same line
InComment(s, p) ==
    \E q \in 1..p : s[q] = HASH /\ \A k \in q..p : s[k] # NL

RECURSIVE KeepOutsideComments(_, _)
KeepOutsideComments(s, p) ==
    IF p > Len(s) THEN <<>>
    ELSE (IF InComment(s, p) THEN <<>> ELSE <<s[p]>>) \o KeepOutsideComments(s, p + 1)

\* s holds line comments and code only: outside its comments there is no
\* triple quote
OnlyLineComments(s) ==
    LET code == KeepOutsideComments(s, 1)
    IN  ~IsSubstring(TripleDQ, code) /\ ~IsSubstring(TripleSQ, code)

\* C2 (as claimed): for every input holding a triple-quoted block, the block is
\* gone from the output and every one-line string literal of the input appears
\* in the output character for character.
C2_BlockRemovedLiteralsKept ==
    (/\ pc = "normalized"
     /\ LexOk(Lex(source_code))
     /\ Tokens(source_code, "triple") # {})
    => /\ \A b \in Tokens(source_code, "triple") : ~IsSubstring(b, cleaned)
       /\ \A l \in Tokens(source_code, "short") : IsSubstring(l, cleaned)

\* C3: for every input that holds only line comments besides code (a comment
\* being a '#' through the end of its line, and no triple quote outside the
\* comments), the output has no '#' and is the input with exactly the comment
\* positions deleted, line breaks kept.
C3_CommentsDeletedRestKept ==
    (pc = "normalized" /\ OnlyLineComments(source_code))
    => /\ \A p \in 1..Len(cleaned) : cleaned[p] # HASH
       /\ cleaned = KeepOutsideComments(source_code, 1)

\* C3 witness: two commented lines with code before the first comment
C3_Witness ==
    /\ pc = "normalized"
    /\ source_code = <<LETTER, HASH, LETTER, NL, HASH>>
    /\ cleaned = <<LETTER, NL>>

\* C8 (as claimed): applying the normalizer to its own output changes nothing.
C8_Idempotent ==
    pc = "renormalized" => recleaned = cleaned


---------------------------------------------------------------------------
(* Inputs of the normalizer: up to MaxPieces lexical pieces in a row, up to  *)
(* MaxPiecesTwice where it is applied to its own output                      *)

MaxPieces == 5
MaxPiecesTwice == 6

Pieces == {<<HASH>>, <<NL>>, <<LETTER>>, <<DQ>>, <<SQ>>, TripleDQ, TripleSQ}

PieceSeqs(n) == UNION {[1..k -> Pieces] : k \in 0..n}

NoFile ==
    /\ file_stmts = <<>>
    /\ file_content = <<>>
    /\ functions_and_classes = None

NoWalk ==
    /\ variant = "A"
    /\ parent = <<>>
    /\ listing = <<>>
    /\ answers = <<>>
    /\ prompts = <<>>
    /\ pending = <<>>
    /\ root = 0
    /\ files = <<>>
    /\ fidx = 0
    /\ todo = <<>>
    /\ nb = <<>>
    /\ code_cell_count = 0
    /\ processed = <<>>
    /\ reported = <<>>
    /\ written = <<>>

NoInput ==
    /\ source_code = <<>>
    /\ cleaned = None
    /\ recleaned = None

InitNorm ==
    /\ pc = "normalize"
    /\ source_code \in {Flatten(ps) : ps \in PieceSeqs(MaxPieces)}
    /\ cleaned = None
    /\ recleaned = None
    /\ NoFile
    /\ NoWalk

InitTwice ==
    /\ pc = "normalize"
    /\ source_code \in {Flatten(ps) : ps \in PieceSeqs(MaxPiecesTwice)}
    /\ cleaned = None
    /\ recleaned = None
    /\ NoFile
    /\ NoWalk

Normalize ==
    /\ pc = "normalize"
    /\ cleaned' = remove_comments_and_docstrings(source_code)
    /\ pc' = "normalized"
    /\ UNCHANGED <<source_code, recleaned, extractVars, walkVars>>

NormalizeAgain ==
    /\ pc = "normalized"
    /\ recleaned' = remove_comments_and_docstrings(cleaned)
    /\ pc' = "renormalized"
    /\ UNCHANGED <<source_code, cleaned, extractVars, walkVars>>

NextNorm == Normalize
NextTwice == Normalize \/ NormalizeAgain

SpecNorm == InitNorm /\ [][NextNorm]_vars
SpecTwice == InitTwice /\ [][NextTwice]_vars

---------------------------------------------------------------------------
(* Source files: up to MaxStmts top-level statements, one after the other *)

MaxStmts == 3

Lines(ls) == Flatten([k \in 1..Len(ls) |-> IF k = 1 THEN ls[k] ELSE <<NL>> \o ls[k]])

\* def f():
\*     pass
StmtDefPass == <<DEF_F, NL, IND, PASS>>
\* def f():
\*     """d"""
StmtDefDocOnly == <<DEF_F, NL, IND>> \o TripleDQ \o <<LETTER>> \o TripleDQ
\* async def f():
\*     '''d
\*     d'''
\*     x = "d"  # d
StmtAsyncDoc ==
    <<ASYNC_DEF_F, NL, IND>> \o TripleSQ \o <<LETTER, NL, IND, LETTER>> \o TripleSQ
    \o <<NL, IND, ASG, DQ, LETTER, DQ, HASH, LETTER>>
\* class C:
\*     x = '#'
\*     def f():
\*         pass
StmtClassNested ==
    <<CLASS_C, NL, IND, ASG, SQ, HASH, SQ, NL, IND, DEF_F, NL, IND, IND, PASS>>
\* x = 'd'
StmtAssign == <<ASG, SQ, LETTER, SQ>>
\* # d
StmtComment == <<HASH, LETTER>>
\* """d"""
StmtDocstring == TripleDQ \o <<LETTER>> \o TripleDQ
\* def f():          (no body: a syntax error)
StmtDefNoBody == <<DEF_F>>

SampleStmts ==
    {StmtDefPass, StmtDefDocOnly, StmtAsyncDoc, StmtClassNested,
     StmtAssign, StmtComment, StmtDocstring, StmtDefNoBody}

StmtSeqs(n) == UNION {[1..k -> SampleStmts] : k \in 0..n}

InitExtract ==
    /\ pc = "extract"
    /\ file_stmts \in StmtSeqs(MaxStmts)
    /\ file_content = Lines(file_stmts)
    /\ functions_and_classes = None
    /\ NoInput
    /\ NoWalk

\* lines 42-53: read, parse, collect; a syntax error leaves as an exception
Extract ==
    /\ pc = "extract"
    /\ functions_and_classes' = extract_functions_and_classes_from_file(file_content)
    /\ pc' = IF functions_and_classes' = SyntaxError THEN "raised" ELSE "extracted"
    /\ UNCHANGED <<file_stmts, file_content, normVars, walkVars>>

NextExtract == Extract

SpecExtract == InitExtract /\ [][NextExtract]_vars

---------------------------------------------------------------------------
(* create_notebook_from_python_files: the directory walk of both scripts *)

NumDirs == 3

\* a file of a directory: its name and its text
File(name, content) == [name |-> name, content |-> content]

\* a.py: one function and one class
FileA == File(<<"a", ".py">>, Lines(<<StmtDefPass, StmtClassNested>>))
\* b.py: a module docstring and no declaration
FileB == File(<<"b", ".py">>, StmtDocstring)
\* bad.py: a def without a body
FileBad == File(<<"bad", ".py">>, StmtDefNoBody)
\* notes.txt, and a.py.bak: not source files
FileNotes == File(<<"notes", ".txt">>, <<LETTER>>)
FileBak == File(<<"a", ".py", ".bak">>, StmtDefPass)

\* what os.walk may list as the files of a directory; the state names a
\* listing by its position here
SampleListings ==
    <<(<<>>), <<FileNotes, FileB, FileA>>, <<FileBak, FileBad, FileA>>>>

\* what the user may type at the prompt
Answers == {<<"y", "e", "s">>, <<"Y", "e", "S">>, <<"n", "o">>}

\* str.lower()
LowerChar(c) ==
    CASE c = "Y" -> "y"
      [] c = "E" -> "e"
      [] c = "S" -> "s"
      [] c = "N" -> "n"
      [] c = "O" -> "o"
      [] OTHER -> c

\* the answer had it been compared as typed
lower_Missing(s) == s

lower(s) == [k \in 1..Len(s) |-> LowerChar(s[k])]

\* file.endswith('.py')
endswith(name, suffix) ==
    /\ Len(suffix) <= Len(name)
    /\ SubSeq(name, Len(name) - Len(suffix) + 1, Len(name)) = suffix

IsPy(file) == endswith(file.name, <<".py">>)

\* the path os.walk gives a directory, and os.path.join(root, file)
RECURSIVE DirPath(_, _)
DirPath(par, d) ==
    IF d = 1 THEN <<"folder">>
    ELSE DirPath(par, par[d]) \o <<"/", "sub", ToString(d)>>

\* nbf.v4.new_markdown_cell / new_code_cell; file is the source file a cell
\* was made for (directory, position in its listing)
Cell(type, source, file) == [cell_type |-> type, source |-> source, file |-> file]

\* the heading of a file: main.py line 77, making-file.py line 59
HeadingSource(var, par, d, file) ==
    IF var = "A" THEN <<"# Functions and Classes from ">> \o file.name
    ELSE <<"# ">> \o file.name \o <<NL, NL, "Path: ">>
         \o DirPath(par, d) \o <<"/">> \o file.name

\* what a file yields: main.py line 74, making-file.py lines 53-55 (one
\* fragment, the whole normalized text)
Contents(var, file) ==
    IF var = "A" THEN extract_functions_and_classes_from_file(file.content)
    ELSE <<remove_comments_and_docstrings(file.content)>>

\* the test had the cells been made whatever the extractor returned
Usable_Always(var, contents) == TRUE

\* the test before the cells: `if contents:` (a list) in main.py,
\* `if content_without_comments:` (a string) in making-file.py
Usable(var, contents) ==
    IF var = "A" THEN contents # <<>> ELSE contents[1] # <<>>

\* the heading had it been made and not appended
AppendHeading_Dropped(cells, cell) == cells

\* nb['cells'].append(markdown_cell)
AppendHeading(cells, cell) == Append(cells, cell)

\* nb['cells'].append(code_cell)
AppendCode(cells, cell) == Append(cells, cell)

\* the counter had it been left as it was
Increment_Skipped(n) == n

\* code_cell_count += 1
Increment(n) == n + 1

InitWalk ==
    /\ pc = "walk"
    /\ variant \in {"A", "B"}
    /\ parent = <<0>>
    /\ listing = <<0>>
    /\ answers = <<(<<>>)>>
    /\ prompts = <<0>>
    /\ pending = <<1>>
    /\ root = 0
    /\ files = <<>>
    /\ fidx = 0
    /\ todo = <<>>
    /\ nb = <<>>
    /\ code_cell_count = 0
    /\ processed = <<>>
    /\ reported = <<>>
    /\ written = <<>>
    /\ NoInput
    /\ NoFile

\* One round of `for root, dirs, files in os.walk(folder_path)` up to the
\* test of the answer: os.walk scans the next directory (its subdirectories
\* are walked after it, in order, whatever the caller does with its files),
\* the user is asked, and anything but "yes" in any case goes to the next round.
EnterFolder ==
    /\ pc = "walk"
    /\ pending # <<>>
    /\ LET d == Head(pending)
       IN  \E n \in 0..(NumDirs - Len(parent)), ls \in DOMAIN SampleListings,
              enter_folder \in Answers :
             LET dirs == [k \in 1..n |-> Len(parent) + k]
             IN  /\ parent' = parent \o [k \in 1..n |-> d]
                 /\ listing' = [listing EXCEPT ![d] = ls] \o [k \in 1..n |-> 0]
                 /\ answers' = [answers EXCEPT ![d] = enter_folder] \o [k \in 1..n |-> <<>>]
                 /\ prompts' = [prompts EXCEPT ![d] = @ + 1] \o [k \in 1..n |-> 0]
                 /\ pending' = dirs \o Tail(pending)
                 /\ IF lower(enter_folder) # <<"y", "e", "s">>
                    THEN /\ pc' = "walk"
                         /\ UNCHANGED <<root, files, fidx>>
                    ELSE /\ pc' = "files"
                         /\ root' = d
                         /\ files' = SampleListings[ls]
                         /\ fidx' = 1
    /\ UNCHANGED <<variant, todo, nb, code_cell_count, processed, reported, written,
                   normVars, extractVars>>

\* One round of `for file in files`: a name not ending in .py is passed over;
\* a source file is extracted from, which in main.py may raise SyntaxError out
\* of the script; fragments get a heading cell and go on to the cell loop.
ProcessFile ==
    /\ pc = "files"
    /\ fidx <= Len(files)
    /\ LET file == files[fidx]
       IN  IF ~IsPy(file)
           THEN /\ fidx' = fidx + 1
                /\ UNCHANGED <<pc, todo, nb, processed>>
           ELSE /\ processed' = Append(processed, <<root, fidx>>)
                /\ LET contents == Contents(variant, file)
                   IN  IF contents = SyntaxError
                       THEN /\ pc' = "aborted"
                            /\ UNCHANGED <<fidx, todo, nb>>
                       ELSE IF Usable(variant, contents)
                       THEN /\ nb' = AppendHeading(nb,
                                       Cell("markdown",
                                            HeadingSource(variant, parent, root, file),
                                            <<root, fidx>>))
                            /\ todo' = contents
                            /\ pc' = "cells"
                            /\ UNCHANGED fidx
                       ELSE /\ fidx' = fidx + 1
                            /\ UNCHANGED <<pc, todo, nb>>
    /\ UNCHANGED <<variant, parent, listing, answers, prompts, pending, root, files,
                   code_cell_count, reported, written, normVars, extractVars>>

\* One round of `for content in contents` (main.py lines 79-82); the single
\* cell of making-file.py (lines 62-64)
AppendCodeCell ==
    /\ pc = "cells"
    /\ todo # <<>>
    /\ nb' = AppendCode(nb, Cell("code", Head(todo), <<root, fidx>>))
    /\ code_cell_count' = Increment(code_cell_count)
    /\ todo' = Tail(todo)
    /\ IF Tail(todo) = <<>>
       THEN pc' = "files" /\ fidx' = fidx + 1
       ELSE UNCHANGED <<pc, fidx>>
    /\ UNCHANGED <<variant, parent, listing, answers, prompts, pending, root, files,
                   processed, reported, written, normVars, extractVars>>

\* the files of the directory are done: back to os.walk
NextFolder ==
    /\ pc = "files"
    /\ fidx > Len(files)
    /\ pc' = "walk"
    /\ UNCHANGED <<variant, parent, listing, answers, prompts, pending, root, files,
                   fidx, todo, nb, code_cell_count, processed, reported, written,
                   normVars, extractVars>>

\* print(f"Total number of code cells created: {code_cell_count}"); return nb
ReportTotal ==
    /\ pc = "walk"
    /\ pending = <<>>
    /\ reported' = <<code_cell_count>>
    /\ pc' = "returned"
    /\ UNCHANGED <<variant, parent, listing, answers, prompts, pending, root, files,
                   fidx, todo, nb, code_cell_count, processed, written,
                   normVars, extractVars>>

\* nbf.write(nb, os.path.join(folder_path, ...))
WriteNotebook ==
    /\ pc = "returned"
    /\ written' = <<nb>>
    /\ pc' = "done"
    /\ UNCHANGED <<variant, parent, listing, answers, prompts, pending, root, files,
                   fidx, todo, nb, code_cell_count, processed, reported,
                   normVars, extractVars>>

NextWalk ==
    \/ EnterFolder
    \/ ProcessFile
    \/ AppendCodeCell
    \/ NextFolder
    \/ ReportTotal
    \/ WriteNotebook

SpecWalk == InitWalk /\ [][NextWalk]_vars

---------------------------------------------------------------------------
(* Claims about extract_functions_and_classes_from_file *)

\* the statements a file was written with that are function or class
\* declarations: those that open with a def, async def or class header
IsDeclStmt(stmt) == HeaderKind(stmt[1]) # "none"

DeclStmts(stmts) == SelectSeq(stmts, IsDeclStmt)

\* C1: for a file without syntax error written with N top-level function or
\* class declarations, the extractor returns N fragments, the i-th being the
\* i-th declaration rendered back and normalized; nested declarations and the
\* other top-level statements give none.
C1_OneFragmentPerDeclaration ==
    pc = "extracted" =>
        LET decls == DeclStmts(file_stmts)
        IN  /\ Len(functions_and_classes) = Len(decls)
            /\ \A i \in 1..Len(decls) :
                   /\ Len(Parse(decls[i]).body) = 1
                   /\ functions_and_classes[i] =
                          remove_comments_and_docstrings(unparse(Parse(decls[i]).body[1]))

\* C1 witness: a class with a nested function, an assignment, an async function
C1_Witness ==
    /\ pc = "extracted"
    /\ file_stmts = <<StmtClassNested, StmtAssign, StmtAsyncDoc>>
    /\ Len(functions_and_classes) = 2

\* C9 (as claimed): every fragment the extractor returns for a file without
\* syntax error parses on its own.
C9_FragmentsParse ==
    pc = "extracted" =>
        \A i \in 1..Len(functions_and_classes) : Parse(functions_and_classes[i]).ok

---------------------------------------------------------------------------
(* Claims about the walk *)

CodeCells(cells) == {i \in 1..Len(cells) : cells[i].cell_type = "code"}

\* every code cell has the heading of its own file before it, with nothing
\* but code cells of that file in between
WellPlaced(cells) ==
    \A i \in CodeCells(cells) :
        \E h \in 1..(i - 1) :
            /\ cells[h].cell_type = "markdown"
            /\ cells[h].file = cells[i].file
            /\ \A k \in (h + 1)..i :
                   cells[k].cell_type = "code" /\ cells[k].file = cells[i].file

\* C4: at every point of the run and in the stored document, every code cell
\* lies after the heading of its file and before the next heading.
C4_CodeCellsFollowTheirHeading ==
    /\ WellPlaced(nb)
    /\ \A w \in 1..Len(written) : WellPlaced(written[w])

\* C4 witness: a stored document with two files' cells, three code cells or more
C4_Witness ==
    /\ pc = "done"
    /\ Len(written) = 1
    /\ Cardinality(CodeCells(written[1])) >= 3
    /\ Cardinality({written[1][i].file : i \in 1..Len(written[1])}) >= 2

\* C5: the counter is the number of code cells of the document, and the total
\* reported is the number of code cells of the stored document.
C5_CounterCountsCodeCells ==
    /\ code_cell_count = Cardinality(CodeCells(nb))
    /\ pc \in {"returned", "done"} => reported = <<Cardinality(CodeCells(nb))>>
    /\ pc = "done" => written = <<nb>>

\* C5 witness: a finished run that reported three code cells or more
C5_Witness ==
    /\ pc = "done"
    /\ reported[1] >= 3
    /\ Cardinality(CodeCells(written[1])) = reported[1]

\* "yes" in any mix of cases
YesInAnyCase ==
    {<<a, b, c>> : a \in {"y", "Y"}, b \in {"e", "E"}, c \in {"s", "S"}}

\* the source files of a directory, as <<directory, position in its listing>>
SourcesOf(d) ==
    {<<d, i>> : i \in {j \in 1..Len(SampleListings[listing[d]]) :
                          IsPy(SampleListings[listing[d]][j])}}

\* the source files of the directories the user confirmed
ConfirmedSources ==
    UNION {SourcesOf(d) : d \in {e \in 1..Len(parent) : answers[e] \in YesInAnyCase}}

\* C6: no directory is asked about twice; when the walk has ended every
\* directory of the tree was asked about once, and the files handed to the
\* extractor are the .py files of the directories whose own answer was "yes"
\* in any case, whatever was answered for their parents.
C6_EveryDirectoryPromptedOnce ==
    /\ \A d \in 1..Len(parent) : prompts[d] <= 1
    /\ pc \in {"returned", "done"} =>
           /\ \A d \in 1..Len(parent) : prompts[d] = 1
           /\ {processed[k] : k \in 1..Len(processed)} = ConfirmedSources
           /\ Len(processed) = Cardinality(ConfirmedSources)

\* C6 witness: the root and its subdirectory declined, the subdirectory's own
\* subdirectory confirmed and its files processed
C6_Witness ==
    /\ pc = "done"
    /\ parent = <<0, 1, 2>>
    /\ answers = <<(<<"n", "o">>), <<"n", "o">>, <<"Y", "e", "S">>>>
    /\ processed # <<>>
    /\ \A k \in 1..Len(processed) : processed[k][1] = 3

\* the next file is a source file main.py cannot parse
BadFileNext ==
    /\ pc = "files"
    /\ variant = "A"
    /\ fidx <= Len(files)
    /\ IsPy(files[fidx])
    /\ ~Parse(files[fidx].content).ok

\* C7: in main.py a source file that does not parse ends the run there: the
\* step that meets it aborts, nothing happens after the abort, and an aborted
\* run has reported no total and stored no document.
C7_SyntaxErrorAbortsRun ==
    /\ [][/\ BadFileNext => pc' = "aborted"
          /\ pc = "aborted" => FALSE]_vars
    /\ [](pc = "aborted" =>
              /\ variant = "A"
              /\ ~Parse(files[fidx].content).ok
              /\ reported = <<>>
              /\ written = <<>>)

\* C7 witness: an abort with cells already made, a file and a directory left
C7_Witness ==
    /\ pc = "aborted"
    /\ nb # <<>>
    /\ fidx < Len(files)
    /\ pending # <<>>

\* a file gives nothing usable: no top-level function or class in main.py,
\* an empty normalized text in making-file.py
NothingUsable(var, file) ==
    IF var = "A"
    THEN /\ Parse(file.content).ok
         /\ \A k \in 1..Len(Parse(file.content).body) :
                Parse(file.content).body[k].kind \notin DeclKinds
    ELSE remove_comments_and_docstrings(file.content) = <<>>

\* C10: processing a source file that gives nothing usable leaves the document
\* and the counter as they were and moves on to the next file.
C10_NothingUsableAddsNothing ==
    [][(/\ pc = "files"
        /\ fidx <= Len(files)
        /\ IsPy(files[fidx])
        /\ NothingUsable(variant, files[fidx]))
       => /\ nb' = nb
          /\ code_cell_count' = code_cell_count
          /\ pc' = "files"
          /\ fidx' = fidx + 1
          /\ UNCHANGED <<root, files, pending, todo>>]_vars

\* C10 witness: such a file was just passed, the document not empty, a file left
C10_Witness ==
    /\ pc = "files"
    /\ fidx >= 2
    /\ fidx <= Len(files)
    /\ IsPy(files[fidx - 1])
    /\ NothingUsable(variant, files[fidx - 1])
    /\ nb # <<>>
    /\ processed[Len(processed)] = <<root, fidx - 1>>

=============================================================================
